---- MODULE Spec2Model ----
(***************************************************************************)
(* Typo-server: the analytics service (src/services/analytics.service.js)  *)
(* over the Analytics collection (analyticsSchema), the two writes each of *)
(* createUser and deleteUserAccount, and the leaderboard                   *)
(* (generateLeaderboard, setLeaderboard, getLeaderboard).                  *)
(*                                                                         *)
(* A calendar date 'YYYY-MM-DD' (new Date().toISOString().split('T')[0])   *)
(* is modelled by the number of its UTC day: the formatting is injective   *)
(* and its string order is the chronological order, so `!==` on the        *)
(* strings is `#` on the day numbers.                                      *)
(* A Number that the code divides (a DailyEntry's wpm and accuracy) is an  *)
(* exact fraction <<numerator, denominator>> in lowest terms.              *)
(* null is the empty sequence, a present value v is <<v>>.                 *)
(***************************************************************************)
EXTENDS Integers, Sequences, FiniteSets, TLC

\* ------------------------------------------------------------------ bounds
\* Overlapping requests (Spec): how many times the UTC day changes, and how
\* many updateAnalytics calls are issued.
MaxTicks == 1
MaxSubmits == 2
\* One request at a time (SpecSeq): the same.
MaxSeqTicks == 2
MaxSeqSubmits == 3
\* Registration and deletion next to the requests (SpecLife): how many
\* updateAnalytics calls are issued.
MaxLifeSubmits == 3
\* The leaderboard (SpecBoard): how many getLeaderboard calls follow one
\* setLeaderboard.
MaxFetches == 2

\* resetPassword requests for one email, with no time passing.
MaxResets == 4
\* resetPassword requests for one email while time passes, and the number of
\* times the clock is advanced by half the OTP's lifetime.
MaxTimedResets == 2
MaxAdvances == 3

\* Requests through the JWT middleware.
MaxAuthRequests == 2

\* Calls of connectMQ.
MaxCallers == 3

\* ------------------------------------------------------- program constants
\* `if (updatedProgress.length >= 10)`: the rolling window.
WINDOW == 10

Users == {"u1", "u2"}
\* A string that is not a valid ObjectId.
BadId == "not-an-objectid"
UserIds == Users \cup {BadId}
\* Concurrent requests the server is handling.
Procs == {1, 2}

\* Request bodies. The last one breaks the schema (accuracy max 100).
Payloads ==
  { [wpm |-> 85, accuracy |-> 95, testTimings |-> 30, maxStreak |-> 1, lastTestTaken |-> 1001],
    [wpm |-> 90, accuracy |-> 98, testTimings |-> 60, maxStreak |-> 2, lastTestTaken |-> 1002],
    [wpm |-> 88, accuracy |-> 97, testTimings |-> 15, maxStreak |-> 3, lastTestTaken |-> 1003],
    [wpm |-> 70, accuracy |-> 101, testTimings |-> 30, maxStreak |-> 1, lastTestTaken |-> 1004] }

VARIABLES
  analytics,   \* the Analytics collection: a set of documents
  clock,       \* the current UTC day
  pc,          \* pc[p]: where request p is in updateAnalytics
  call,        \* call[p]: the locals of request p
  started,     \* number of updateAnalytics calls issued so far
  tally,       \* history: per user, successful updates since creation or reset
  run,         \* history: per user, the current run of same-date updates
  users,       \* the User collection: the ids of its documents
  stage,       \* stage[u]: where createUser / deleteUserAccount of u stands
  resp,        \* history: resp[p]: what request p's last updateAnalytics returned
  redis,       \* the value under the cache key 'leaderboard'
  gen,         \* the locals of the generateLeaderboard run in flight
  pub,         \* history: the array of the last successful setLeaderboard
  seen,        \* history: what getLeaderboard returned since that publish
  req,         \* req[p]: the body the updateAnalytics controller last took for p
  otp,         \* the key otp:<email> of the cache, and the time
  reset,       \* reset[r]: where resetPassword request r stands, and its locals
  auth,        \* the request the JWT middleware is handling, and its response
  mq           \* init/queue.js: connection, channel, and the connectMQ calls

\* The account lifecycle and the leaderboard: untouched by the analytics
\* requests of Spec and SpecSeq.
lifeVars == <<users, stage, resp>>
boardVars == <<redis, gen, pub, seen>>
\* The controller, the OTP store, the JWT middleware and the broker
\* connection: untouched by the service and the leaderboard.
edgeVars == <<req, otp, reset, auth, mq>>
\* The service, the account lifecycle and the leaderboard.
coreVars == <<analytics, clock, pc, call, started, tally, run, lifeVars, boardVars>>

vars == <<analytics, clock, pc, call, started, tally, run, users, stage, resp,
          redis, gen, pub, seen, req, otp, reset, auth, mq>>

\* ------------------------------------------------------------- arithmetic
RECURSIVE GCD(_, _)
GCD(a, b) == IF b = 0 THEN a ELSE GCD(b, a % b)

\* The fraction n/d (n >= 0, d > 0) in lowest terms.
Frac(n, d) == LET g == GCD(n, d) IN <<n \div g, d \div g>>

Num(v) == Frac(v, 1)

\* Mutant: the mean of the old mean and the new value, unweighted.
cumulativeAverage_Unweighted(old, oldCount, new, newCount) ==
  Frac(old[1] + new * old[2], old[2] * 2)

\* (old * oldCount + new) / newCount, old a fraction, new and the counts integers.
cumulativeAverage(old, oldCount, new, newCount) ==
  Frac(old[1] * oldCount + new * old[2], old[2] * newCount)

\* ------------------------------------------------------------ the documents
\* A DailyEntry of `progress` (analyticsSchema.progress).
newEntry(today, wpm, accuracy) ==
  [date |-> today, wpm |-> Num(wpm), accuracy |-> Num(accuracy), count |-> 1]

\* The progress of a user who took one test a day on the days 1..k.
InitProgress(k) == [i \in 1..k |-> newEntry(i, 60 + i, 90)]

\* The document of such a user. With k = 0 it is the document that
\* registration creates (the schema's defaults).
InitDoc(u, k) ==
  [userId |-> u,
   wpm |-> IF k = 0 THEN 0 ELSE 60 + k,
   accuracy |-> IF k = 0 THEN 0 ELSE 90,
   testTimings |-> IF k = 0 THEN 0 ELSE 30,
   lastTestTaken |-> IF k = 0 THEN <<>> ELSE <<1000>>,
   totalPar |-> k,
   maxStreak |-> k,
   progress |-> InitProgress(k)]

\* The lengths of progress a run starts from: empty, one short of the
\* window, and full.
InitLens == {0, WINDOW - 1, WINDOW}

\* mongoose.Types.ObjectId.isValid(userId)
isValid(id) == id \in Users

\* Mutant: a filter that names no path of the schema is stripped, and the
\* query lands on whichever document the store finds first.
filterByUserId_Stripped(d, id) == d = (CHOOSE e \in analytics : TRUE)

\* The filter { userId: formattedUserId }.
filterByUserId(d, id) == d.userId = id

\* Analytics.findOne({ userId }): the matching documents (none or one, by
\* the unique index on userId).
findOne(id) == {d \in analytics : filterByUserId(d, id)}

\* ------------------------------------------------- updateAnalytics, 45..72
isFirstTestToday(progress, today) ==
  Len(progress) = 0 \/ progress[Len(progress)].date # today

\* Mutant: the window test off by one (`>` for `>=`).
shiftIfFull_OffByOne(progress) ==
  IF Len(progress) > WINDOW THEN Tail(progress) ELSE progress

\* Mutant: pop() for shift(): the newest entry goes, not the oldest.
shiftIfFull_DropNewest(progress) ==
  IF Len(progress) >= WINDOW THEN SubSeq(progress, 1, Len(progress) - 1) ELSE progress

\* if (updatedProgress.length >= 10) updatedProgress.shift()
shiftIfFull(progress) ==
  IF Len(progress) >= WINDOW THEN Tail(progress) ELSE progress

\* Mutant: `existingEntry.count = newCount` left out.
mergeIntoLast_KeepCount(progress, wpm, accuracy) ==
  LET existingEntry == progress[Len(progress)]
      newCount == existingEntry.count + 1
  IN [progress EXCEPT ![Len(progress)] =
        [date |-> existingEntry.date,
         wpm |-> cumulativeAverage(existingEntry.wpm, existingEntry.count, wpm, newCount),
         accuracy |-> cumulativeAverage(existingEntry.accuracy, existingEntry.count, accuracy, newCount),
         count |-> existingEntry.count]]

\* The else branch: the last entry becomes the cumulative average.
mergeIntoLast(progress, wpm, accuracy) ==
  LET existingEntry == progress[Len(progress)]
      newCount == existingEntry.count + 1
  IN [progress EXCEPT ![Len(progress)] =
        [date |-> existingEntry.date,
         wpm |-> cumulativeAverage(existingEntry.wpm, existingEntry.count, wpm, newCount),
         accuracy |-> cumulativeAverage(existingEntry.accuracy, existingEntry.count, accuracy, newCount),
         count |-> newCount]]

updatedProgress(progress, today, wpm, accuracy) ==
  IF isFirstTestToday(progress, today)
  THEN Append(shiftIfFull(progress), newEntry(today, wpm, accuracy))
  ELSE mergeIntoLast(progress, wpm, accuracy)

\* Mutant: `min: 0` left out of the schema's wpm and accuracy.
runValidators_NoMin(payload) ==
  /\ payload.accuracy <= 100
  /\ payload.testTimings >= 0
  /\ payload.maxStreak >= 0

\* Mutant: `max: 100` left out of the schema's accuracy.
runValidators_NoMax(payload) ==
  /\ payload.wpm >= 0
  /\ payload.accuracy >= 0
  /\ payload.testTimings >= 0
  /\ payload.maxStreak >= 0

\* runValidators: true, over the paths the update sets (analyticsSchema's
\* min and max).
runValidators(payload) ==
  /\ payload.wpm >= 0
  /\ payload.accuracy >= 0 /\ payload.accuracy <= 100
  /\ payload.testTimings >= 0
  /\ payload.maxStreak >= 0

\* Mutant: `progress: updatedProgress` left out of the update document.
updatePatch_NoProgress(doc, payload, progress) ==
  [doc EXCEPT !.wpm = payload.wpm,
              !.accuracy = payload.accuracy,
              !.testTimings = payload.testTimings,
              !.maxStreak = payload.maxStreak,
              !.lastTestTaken = <<payload.lastTestTaken>>,
              !.totalPar = @ + 1]

\* Mutant: `$inc: { totalPar: 1 }` left out.
updatePatch_NoInc(doc, payload, progress) ==
  [doc EXCEPT !.wpm = payload.wpm,
              !.accuracy = payload.accuracy,
              !.testTimings = payload.testTimings,
              !.maxStreak = payload.maxStreak,
              !.lastTestTaken = <<payload.lastTestTaken>>,
              !.progress = progress]

\* Mutant: `totalPar: 1` among the set fields in place of `$inc`.
updatePatch_CountOne(doc, payload, progress) ==
  [doc EXCEPT !.wpm = payload.wpm,
              !.accuracy = payload.accuracy,
              !.testTimings = payload.testTimings,
              !.maxStreak = payload.maxStreak,
              !.lastTestTaken = <<payload.lastTestTaken>>,
              !.progress = progress,
              !.totalPar = 1]

\* The update document of updateAnalytics applied to one document.
updatePatch(doc, payload, progress) ==
  [doc EXCEPT !.wpm = payload.wpm,
              !.accuracy = payload.accuracy,
              !.testTimings = payload.testTimings,
              !.maxStreak = payload.maxStreak,
              !.lastTestTaken = <<payload.lastTestTaken>>,
              !.progress = progress,
              !.totalPar = @ + 1]

\* The update document of resetAnalytics applied to one document.
resetPatch(doc) ==
  [doc EXCEPT !.wpm = 0,
              !.accuracy = 0,
              !.testTimings = 0,
              !.lastTestTaken = <<>>,
              !.totalPar = 0,
              !.maxStreak = 0]

\* Mutant: `upsert: true` among the options of updateAnalytics' query.
updateOne_Upsert(id, payload, progress) ==
  IF \E d \in analytics : filterByUserId(d, id)
  THEN {IF filterByUserId(d, id) THEN updatePatch(d, payload, progress) ELSE d : d \in analytics}
  ELSE analytics \cup {updatePatch(InitDoc(id, 0), payload, progress)}

\* Analytics.findOneAndUpdate(filter, update) of updateAnalytics: the
\* collection afterwards. Without upsert, no match changes nothing.
updateOne(id, payload, progress) ==
  {IF filterByUserId(d, id) THEN updatePatch(d, payload, progress) ELSE d : d \in analytics}

\* Mutant: `upsert: true` among the options of resetAnalytics' query.
resetOne_Upsert(id) ==
  IF \E d \in analytics : filterByUserId(d, id)
  THEN {IF filterByUserId(d, id) THEN resetPatch(d) ELSE d : d \in analytics}
  ELSE analytics \cup {InitDoc(id, 0)}

\* Analytics.findOneAndUpdate(filter, update) of resetAnalytics.
resetOne(id) ==
  {IF filterByUserId(d, id) THEN resetPatch(d) ELSE d : d \in analytics}

\* getAnalytics: a read, no effect on the collection.
getAnalytics(id) == IF isValid(id) THEN findOne(id) ELSE {}

\* ------------------------------------------------------------------- state
NoCall == [userId |-> BadId, payload |-> CHOOSE pl \in Payloads : TRUE,
           today |-> 0, updatedProgress |-> <<>>]

NoRun == [day |-> 0, n |-> 0, sumW |-> 0, sumA |-> 0, fresh |-> FALSE]

NoResp == [userId |-> BadId, result |-> "none", status |-> 0, at |-> "none"]

\* No cache entry, no run of generateLeaderboard, nothing published or read.
NoText == [set |-> FALSE, type |-> "none", items |-> <<>>]
NoGen == [pc |-> "idle", analyticsList |-> <<>>, leaderboard |-> <<>>]
NoPub == [done |-> FALSE, value |-> <<>>, from |-> <<>>]

\* The controller has taken no request.
NoBody == <<>>
NoReq == [n |-> 0, body |-> NoBody]

\* redis/otp.js, lines 3 and 4.
OTP_TTL_SECONDS == 120
MAX_ATTEMPTS == 3

\* resetPassword requests for the one email of the model.
Resetters == 1..(IF MaxResets > MaxTimedResets THEN MaxResets ELSE MaxTimedResets)

\* No OTP issued: the key otp:<email> is absent. `now` is the time in
\* seconds; compared and accepted are history: the number of submitted
\* values compared with the stored OTP, and the times at which one matched.
NoOtp ==
  [key |-> <<>>, now |-> 0, issued |-> FALSE, issuedAt |-> 0,
   compared |-> 0, accepted |-> <<>>, advances |-> 0]

\* A resetPassword request not yet made.
NoResetCall == [pc |-> "idle", otp |-> "none", payload |-> <<>>, ttl |-> 0, status |-> 0]
NoReset == [r \in Resetters |-> NoResetCall]
\* The JWT middleware has taken no request. handled counts the requests.
NoAuth ==
  [pc |-> "idle", handled |-> 0, token |-> <<>>, verification |-> <<>>,
   headers |-> <<>>, userId |-> <<>>, next |-> FALSE, status |-> 0, code |-> "none"]
\* init/queue.js as loaded: connection and channel are null (0); no
\* connectMQ call made, stopMQ not called. connections and channels are
\* history: how many of each the broker was asked for and gave.
Callers == 1..MaxCallers
NoMq ==
  [connection |-> 0, channel |-> 0, connections |-> 0, channels |-> 0,
   calls |-> [c \in Callers |-> [pc |-> "idle", returned |-> 0]],
   stop |-> "idle"]

InitEdgeIdle ==
  /\ req = [p \in Procs |-> NoReq]
  /\ otp = NoOtp
  /\ reset = NoReset
  /\ auth = NoAuth
  /\ mq = NoMq

InitBoardIdle ==
  /\ redis = NoText
  /\ gen = NoGen
  /\ pub = NoPub
  /\ seen = <<>>

Init ==
  /\ \E k1 \in InitLens, rest \in {{}, {InitDoc("u2", 0)}} :
       /\ analytics = {InitDoc("u1", k1)} \cup rest
       /\ tally = [u \in Users |->
                     [n |-> 0,
                      base |-> IF u = "u1" THEN k1
                               ELSE IF rest = {} THEN 0
                               ELSE (CHOOSE d \in rest : TRUE).totalPar]]
  /\ clock = WINDOW
  /\ InitEdgeIdle
  /\ pc = [p \in Procs |-> "idle"]
  /\ call = [p \in Procs |-> NoCall]
  /\ started = 0
  /\ run = [u \in Users |-> NoRun]
  /\ users = {d.userId : d \in analytics}
  /\ stage = [u \in Users |-> IF u \in users THEN "registered" ELSE "unregistered"]
  /\ resp = [p \in Procs |-> NoResp]
  /\ InitBoardIdle

\* ----------------------------------------------------------------- actions
\* The UTC day changes.
Tick ==
  /\ clock' = clock + 1
  /\ UNCHANGED <<analytics, pc, call, started>>

\* updateAnalytics, lines 35..40: the ObjectId check and `today`. The query
\* of line 41 is answered later. The request takes the first free slot.
UpdateBegin(p, id, payload) ==
  /\ pc[p] = "idle"
  /\ \A q \in Procs : q < p => pc[q] # "idle"
  /\ started' = started + 1
  /\ IF ~isValid(id)
     THEN UNCHANGED <<pc, call>>
     ELSE /\ pc' = [pc EXCEPT ![p] = "findOne"]
          /\ call' = [call EXCEPT ![p] =
                        [userId |-> id, payload |-> payload, today |-> clock,
                         updatedProgress |-> <<>>]]
  /\ UNCHANGED <<analytics, clock>>

\* updateAnalytics, lines 41..72: the read, and the merge of this test into
\* the progress that was read.
UpdateFind(p) ==
  /\ pc[p] = "findOne"
  /\ LET found == findOne(call[p].userId) IN
       IF found = {}
       THEN /\ pc' = [pc EXCEPT ![p] = "idle"]
            /\ call' = [call EXCEPT ![p] = NoCall]
       ELSE LET currentAnalytics == CHOOSE d \in found : TRUE IN
            /\ pc' = [pc EXCEPT ![p] = "findOneAndUpdate"]
            /\ call' = [call EXCEPT ![p].updatedProgress =
                          updatedProgress(currentAnalytics.progress, call[p].today,
                                          call[p].payload.wpm, call[p].payload.accuracy)]
  /\ UNCHANGED <<analytics, clock, started>>

\* Mutant: the merge is done again on the stored progress at the time of the
\* write (a read-modify-write inside the store).
UpdateWrite_MergeAtWrite(p) ==
  /\ pc[p] = "findOneAndUpdate"
  /\ analytics' =
       IF runValidators(call[p].payload)
       THEN {IF filterByUserId(d, call[p].userId)
             THEN updatePatch(d, call[p].payload,
                              updatedProgress(d.progress, call[p].today,
                                              call[p].payload.wpm, call[p].payload.accuracy))
             ELSE d : d \in analytics}
       ELSE analytics
  /\ pc' = [pc EXCEPT ![p] = "idle"]
  /\ call' = [call EXCEPT ![p] = NoCall]
  /\ UNCHANGED <<clock, started>>

\* updateAnalytics, lines 75..89: one findOneAndUpdate. A payload that fails
\* the validators throws before the store is asked.
UpdateWrite(p) ==
  /\ pc[p] = "findOneAndUpdate"
  /\ analytics' =
       IF runValidators(call[p].payload)
       THEN updateOne(call[p].userId, call[p].payload, call[p].updatedProgress)
       ELSE analytics
  /\ pc' = [pc EXCEPT ![p] = "idle"]
  /\ call' = [call EXCEPT ![p] = NoCall]
  /\ UNCHANGED <<clock, started>>

\* resetAnalytics, lines 5..22: one findOneAndUpdate.
ResetAnalytics(id) ==
  /\ analytics' = IF isValid(id) THEN resetOne(id) ELSE analytics
  /\ UNCHANGED <<clock, pc, call, started>>

\* ---------------------------------------------------------------- history
\* A successful update adds one to the user's tally; a reset of an existing
\* document restarts it from the totalPar the reset writes.
TallyUpdate(id) ==
  tally' = IF analytics' # analytics
           THEN [tally EXCEPT ![id].n = @ + 1]
           ELSE tally

TallyReset(id) ==
  tally' = IF isValid(id) /\ findOne(id) # {}
           THEN [tally EXCEPT ![id] = [n |-> 0, base |-> 0]]
           ELSE tally

\* The run of successful updates of one user that computed the same `today`:
\* how many, the sums of their wpm and accuracy, and whether progress had no
\* entry of that date when the run began.
RunUpdate(p) ==
  LET id == call[p].userId
      t == call[p].today
      pl == call[p].payload
      before == (CHOOSE d \in findOne(id) : TRUE).progress
  IN run' = IF analytics' = analytics THEN run
            ELSE IF run[id].n > 0 /\ run[id].day = t
            THEN [run EXCEPT ![id].n = @ + 1,
                             ![id].sumW = @ + pl.wpm,
                             ![id].sumA = @ + pl.accuracy]
            ELSE [run EXCEPT ![id] =
                    [day |-> t, n |-> 1, sumW |-> pl.wpm, sumA |-> pl.accuracy,
                     fresh |-> \A i \in 1..Len(before) : before[i].date # t]]

RunReset(id) ==
  run' = IF isValid(id) THEN [run EXCEPT ![id] = NoRun] ELSE run

\* ---------------------------------------------------------- specifications
\* Requests overlap freely.
Begin == \E p \in Procs, id \in UserIds, payload \in Payloads :
           /\ started < MaxSubmits
           /\ UpdateBegin(p, id, payload)
           /\ UNCHANGED <<tally, run>>
  /\ UNCHANGED <<lifeVars, boardVars, edgeVars>>
Find == \E p \in Procs : UpdateFind(p) /\ UNCHANGED <<tally, run>>
  /\ UNCHANGED <<lifeVars, boardVars, edgeVars>>
Write == \E p \in Procs :
           UpdateWrite(p) /\ TallyUpdate(call[p].userId) /\ UNCHANGED run
  /\ UNCHANGED <<lifeVars, boardVars, edgeVars>>
Reset == \E id \in UserIds :
           ResetAnalytics(id) /\ TallyReset(id) /\ UNCHANGED run
  /\ UNCHANGED <<lifeVars, boardVars, edgeVars>>
Day == clock < WINDOW + MaxTicks /\ Tick /\ UNCHANGED <<tally, run>>
  /\ UNCHANGED <<lifeVars, boardVars, edgeVars>>

Next == Begin \/ Find \/ Write \/ Reset \/ Day

Spec == Init /\ [][Next]_vars

\* One request at a time: a call is issued only when none is in flight.
SeqBegin == \E p \in Procs, id \in UserIds, payload \in Payloads :
              /\ started < MaxSeqSubmits
              /\ \A q \in Procs : pc[q] = "idle"
              /\ UpdateBegin(p, id, payload)
              /\ UNCHANGED <<tally, run>>
  /\ UNCHANGED <<lifeVars, boardVars, edgeVars>>
SeqFind == \E p \in Procs : UpdateFind(p) /\ UNCHANGED <<tally, run>>
  /\ UNCHANGED <<lifeVars, boardVars, edgeVars>>
SeqWrite == \E p \in Procs :
              UpdateWrite(p) /\ TallyUpdate(call[p].userId) /\ RunUpdate(p)
  /\ UNCHANGED <<lifeVars, boardVars, edgeVars>>
SeqReset == \E id \in UserIds :
              /\ \A q \in Procs : pc[q] = "idle"
              /\ ResetAnalytics(id) /\ TallyReset(id) /\ RunReset(id)
  /\ UNCHANGED <<lifeVars, boardVars, edgeVars>>
SeqDay == clock < WINDOW + MaxSeqTicks /\ Tick /\ UNCHANGED <<tally, run>>
  /\ UNCHANGED <<lifeVars, boardVars, edgeVars>>

NextSeq == SeqBegin \/ SeqFind \/ SeqWrite \/ SeqReset \/ SeqDay

\* The sequential runs follow one record: u2 has no document.
InitSeq == Init /\ findOne("u2") = {}

SpecSeq == InitSeq /\ [][NextSeq]_vars

\* ------------------------------------------------------------------ claims
\* The document of a user who has one.
Doc(u) == CHOOSE d \in analytics : d.userId = u

LastOf(progress) == progress[Len(progress)]

\* C1: in every reachable state, under every interleaving of updateAnalytics
\* and resetAnalytics on documents that began with at most 10 entries, each
\* document's progress has at most 10 entries.
C1_ProgressAtMostWindow ==
  \A d \in analytics : Len(d.progress) <= WINDOW

\* C1's case: a full window whose oldest entry was evicted by an update (the
\* initial entries start at day 1).
C1_Witness ==
  \E d \in analytics :
    /\ Len(d.progress) = WINDOW
    /\ d.progress[1].date > 1
    /\ LastOf(d.progress).date > WINDOW

\* C2: in every reachable state the dates of a document's progress entries are
\* strictly ascending (so no date appears twice), under every interleaving of
\* updateAnalytics calls of one user with a non-decreasing clock, overlapping
\* calls that straddle a day boundary included.
C2_DatesStrictlyAscending ==
  \A d \in analytics :
    \A i \in 1..(Len(d.progress) - 1) :
      d.progress[i].date < d.progress[i + 1].date

\* The document of user u in a collection.
DocIn(coll, u) == CHOOSE d \in coll : d.userId = u

\* Request p's findOneAndUpdate returns in this step.
WriteStep(p) == pc[p] = "findOneAndUpdate" /\ pc'[p] = "idle"

\* C3: after n >= 1 updates applied one after another on one date to a
\* document whose progress had no entry of that date, progress ends with the
\* only entry of that date, and its count is n.
C3_CountIsNumberOfSubmissions ==
  \A u \in Users :
    (run[u].n >= 1 /\ run[u].fresh /\ findOne(u) # {}) =>
      LET progress == Doc(u).progress IN
      /\ Cardinality({i \in 1..Len(progress) : progress[i].date = run[u].day}) = 1
      /\ LastOf(progress).date = run[u].day
      /\ LastOf(progress).count = run[u].n

\* C3's case: three updates in a row on a date new to the document.
C3_Witness ==
  \E u \in Users :
    /\ run[u].fresh /\ run[u].n = 3
    /\ findOne(u) # {}
    /\ LastOf(Doc(u).progress).count = 3

C5_FullWindowEvictsOldest ==
  [][\A p \in Procs :
       (WriteStep(p) /\ analytics' # analytics) =>
         LET old == Doc(call[p].userId).progress
             new == DocIn(analytics', call[p].userId).progress
         IN (Len(old) = WINDOW /\ LastOf(old).date # call[p].today) =>
              /\ Len(new) = WINDOW
              /\ \A i \in 1..(WINDOW - 1) : new[i] = old[i + 1]
              /\ new[WINDOW] = [date |-> call[p].today,
                                wpm |-> <<call[p].payload.wpm, 1>>,
                                accuracy |-> <<call[p].payload.accuracy, 1>>,
                                count |-> 1]
  ]_vars

\* C5's case: a full window 1..10 took an update two days later: 2..10, 12.
C5_Witness ==
  \E d \in analytics :
    /\ Len(d.progress) = WINDOW
    /\ d.progress[1].date = 2
    /\ d.progress[WINDOW - 1].date = WINDOW
    /\ d.progress[WINDOW].date = WINDOW + 2
    /\ d.progress[WINDOW].count = 1

\* C6: after N successful updates of a document with no reset in between,
\* under any interleaving, totalPar is its value at the start (or at the
\* reset) plus N.
C6_TotalParCountsSubmissions ==
  \A u \in Users :
    findOne(u) # {} => Doc(u).totalPar = tally[u].base + tally[u].n

\* C6's case: two successful updates of a document that began with 9 tests.
C6_Witness ==
  \E u \in Users :
    /\ tally[u].base = WINDOW - 1 /\ tally[u].n = 2
    /\ findOne(u) # {}
    /\ Doc(u).totalPar = WINDOW + 1

\* C7: resetAnalytics on an existing document sets wpm, accuracy, testTimings,
\* totalPar and maxStreak to 0, lastTestTaken to null and progress to the empty
\* sequence, so getAnalytics right after it returns all of these.
C7_ResetClearsEverything ==
  [][\A id \in UserIds :
       (ResetAnalytics(id) /\ getAnalytics(id) # {}) =>
         \A d \in getAnalytics(id)' :
           /\ d.wpm = 0 /\ d.accuracy = 0 /\ d.testTimings = 0
           /\ d.totalPar = 0 /\ d.maxStreak = 0
           /\ d.lastTestTaken = <<>>
           /\ d.progress = <<>>
  ]_vars

\* C8: two overlapping updates of one user can read the same document; the
\* later findOneAndUpdate then writes the progress it merged from what it had
\* read, whatever the store holds by then, and adds 1 to totalPar: both calls
\* succeed, totalPar grows by 2, the day's count by 1 (last write wins).
C8_LastWriteWins ==
  [][\A p \in Procs :
       (WriteStep(p) /\ analytics' # analytics) =>
         LET before == Doc(call[p].userId)
             after == DocIn(analytics', call[p].userId)
         IN /\ after.progress = call[p].updatedProgress
            /\ after.totalPar = before.totalPar + 1
  ]_vars

\* C8's case: a document created empty took two successful updates on one
\* day, and the day's entry counts one test and holds one test's values.
C8_Witness ==
  \E u \in Users :
    /\ findOne(u) # {}
    /\ tally[u].base = 0 /\ tally[u].n = 2
    /\ clock = WINDOW
    /\ \A p \in Procs : pc[p] = "idle"
    /\ LET d == Doc(u) IN
         /\ d.totalPar = 2
         /\ Len(d.progress) = 1
         /\ d.progress[1].date = clock
         /\ d.progress[1].count = 1
         /\ d.progress[1].wpm[2] = 1

\* The user a step of request p acts for.
ActingUser(p) == IF pc[p] = "idle" THEN call'[p].userId ELSE call[p].userId

\* C9: an operation for one user leaves every other user's document as it
\* was, under any interleaving of updates and resets of two users.
C9_OtherUsersUntouched ==
  [][/\ \A p \in Procs :
          pc'[p] # pc[p] =>
            \A d \in analytics : d.userId # ActingUser(p) => d \in analytics'
     /\ \A id \in UserIds :
          ResetAnalytics(id) =>
            \A d \in analytics : d.userId # id => d \in analytics'
  ]_vars

\* C9's case: both users have been updated, by overlapping calls, and their
\* documents differ.
C9_Witness ==
  /\ tally["u1"].n >= 1 /\ tally["u2"].n >= 1
  /\ findOne("u1") # {} /\ findOne("u2") # {}
  /\ Doc("u1").wpm # Doc("u2").wpm
  /\ Doc("u1").progress # Doc("u2").progress

\* C10: an updateAnalytics call changes the collection in one step only, and
\* that step either leaves it as it was (no document, or the validators
\* throw) or sets wpm, accuracy, testTimings, maxStreak and lastTestTaken to
\* the submitted values, progress to the merged sequence, whose last entry is
\* dated `today`, and totalPar to one more, all at once.
C10_AllOrNothing ==
  [][\A p \in Procs :
       /\ (pc'[p] # pc[p] /\ ~WriteStep(p)) => analytics' = analytics
       /\ WriteStep(p) =>
            LET pl == call[p].payload IN
            \/ analytics' = analytics
            \/ /\ runValidators(pl)
               /\ LastOf(call[p].updatedProgress).date = call[p].today
               /\ \E d \in findOne(call[p].userId) :
                    analytics' = (analytics \ {d}) \cup
                      {[userId |-> d.userId,
                        wpm |-> pl.wpm,
                        accuracy |-> pl.accuracy,
                        testTimings |-> pl.testTimings,
                        maxStreak |-> pl.maxStreak,
                        lastTestTaken |-> <<pl.lastTestTaken>>,
                        progress |-> call[p].updatedProgress,
                        totalPar |-> d.totalPar + 1]}
       /\ (WriteStep(p) /\ (~runValidators(call[p].payload) \/ findOne(call[p].userId) = {}))
            => analytics' = analytics
  ]_vars

\* C10's case: two calls have returned; one was applied in full, the other
\* (rejected, or for a user without a document) left no trace.
C10_Witness ==
  /\ started = 2
  /\ \A p \in Procs : pc[p] = "idle"
  /\ \E d \in analytics :
       /\ tally[d.userId].base = 0 /\ tally[d.userId].n = 1
       /\ d.wpm = 90 /\ d.accuracy = 98 /\ d.testTimings = 60
       /\ d.maxStreak = 2 /\ d.lastTestTaken = <<1002>>
       /\ d.totalPar = 1
       /\ d.progress = <<[date |-> clock, wpm |-> <<90, 1>>, accuracy |-> <<98, 1>>, count |-> 1]>>
       /\ \A e \in analytics \ {d} : e = InitDoc(e.userId, 0)

\* C13: in every reachable state each record's wpm is at least 0 and its
\* accuracy lies in [0, 100], and every entry of its progress has a wpm of
\* at least 0, an accuracy in [0, 100] and a count of at least 1.
FractionInRange(v, lo, hi) == v[1] >= lo * v[2] /\ v[1] <= hi * v[2]

C13_ValuesInRange ==
  \A d \in analytics :
    /\ d.wpm >= 0
    /\ d.accuracy >= 0 /\ d.accuracy <= 100
    /\ \A i \in 1..Len(d.progress) :
         /\ d.progress[i].wpm[1] >= 0
         /\ FractionInRange(d.progress[i].accuracy, 0, 100)
         /\ d.progress[i].count >= 1

\* Witness: an entry that averages two accepted submissions, to an accuracy
\* that is no integer, after a third submission was rejected by the
\* validators.
C13_Witness ==
  /\ started = 3
  /\ \A p \in Procs : pc[p] = "idle"
  /\ \E p \in Procs : resp[p].result = "ValidationError"
  /\ \E d \in analytics :
       /\ Len(d.progress) >= 1
       /\ LastOf(d.progress).count = 2
       /\ LastOf(d.progress).accuracy[2] = 2

\* C14, as stated: over every step, the totalPar of a record does not decrease.
C14_TotalParNeverDecreases ==
  [][\A u \in Users :
        (findOne(u) # {} /\ findOne(u)' # {}) =>
          DocIn(analytics', u).totalPar >= Doc(u).totalPar]_vars

\* The step is resetAnalytics(u): the collection becomes resetOne(u) and no
\* updateAnalytics call moves.
ResetStep(u) == analytics' = resetOne(u) /\ pc' = pc /\ clock' = clock

\* C14, amended: the totalPar of a record decreases on no step but a
\* resetAnalytics of that record, which sets it to 0.
C14_TotalParDecreasesOnlyOnReset ==
  [][\A u \in Users :
        (findOne(u) # {} /\ findOne(u)' # {}) =>
          LET after == DocIn(analytics', u).totalPar
          IN \/ after >= Doc(u).totalPar
             \/ ResetStep(u) /\ after = 0]_vars

\* Witness: a record that was reset from a totalPar of at least WINDOW - 1
\* and has taken one update since.
C14_Witness ==
  \E d \in analytics :
    /\ Len(d.progress) >= WINDOW - 1
    /\ d.totalPar = 1
    /\ tally[d.userId].base = 0 /\ tally[d.userId].n = 1

\* ------------------------------------------------------ the account lifecycle
\* Submissions the schema rejects for a negative value, next to Payloads.
NegativePayloads ==
  {[wpm |-> -5, accuracy |-> 95, testTimings |-> 30, maxStreak |-> 1,
    lastTestTaken |-> 1005],
   [wpm |-> 85, accuracy |-> -1, testTimings |-> 30, maxStreak |-> 1,
    lastTestTaken |-> 1006]}

LifePayloads == {x \in Payloads : x.maxStreak <= 2} \cup NegativePayloads

\* createUser: User.create(userPayload), the first of its two writes.
UserCreate(u) ==
  /\ stage[u] = "unregistered"
  /\ users' = users \cup {u}
  /\ stage' = [stage EXCEPT ![u] = "Analytics.create"]
  /\ UNCHANGED <<analytics, clock, pc, call, started>>

\* Mutant: createUser without its Analytics.create.
AnalyticsCreate_LeftOut(u) ==
  /\ stage[u] = "Analytics.create"
  /\ stage' = [stage EXCEPT ![u] = "registered"]
  /\ UNCHANGED <<analytics, users, clock, pc, call, started>>

\* createUser: Analytics.create({ userId: user._id, ...analyticsPayload }).
AnalyticsCreate(u) ==
  /\ stage[u] = "Analytics.create"
  /\ analytics' = analytics \cup {InitDoc(u, 0)}
  /\ stage' = [stage EXCEPT ![u] = "registered"]
  /\ UNCHANGED <<users, clock, pc, call, started>>

\* deleteUserAccount: User.findByIdAndDelete(userId) finds the user. The
\* request carries the token that registration hands out once createUser has
\* returned.
UserFindByIdAndDelete(u) ==
  /\ stage[u] = "registered"
  /\ u \in users
  /\ users' = users \ {u}
  /\ stage' = [stage EXCEPT ![u] = "Analytics.deleteOne"]
  /\ UNCHANGED <<analytics, clock, pc, call, started>>

\* Mutant: the filter of deleteOne names `user`, a path the documents lack.
deleteOne_WrongPath(id) == analytics

\* Analytics.deleteOne({ userId }): the collection afterwards.
deleteOne(id) == {d \in analytics : ~filterByUserId(d, id)}

\* deleteUserAccount: if (user) await Analytics.deleteOne({ userId }).
AnalyticsDeleteOne(u) ==
  /\ stage[u] = "Analytics.deleteOne"
  /\ analytics' = deleteOne(u)
  /\ stage' = [stage EXCEPT ![u] = "deleted"]
  /\ UNCHANGED <<users, clock, pc, call, started>>

\* What updateAnalytics hands to its caller: null from line 36 and line 43,
\* the validators' error or the result of findOneAndUpdate from line 75.
findReturn(id) == IF findOne(id) = {} THEN "null" ELSE "analytics"

writeReturn(id, payload) ==
  IF ~runValidators(payload) THEN "ValidationError"
  ELSE IF findOne(id) = {} THEN "null"
  ELSE "analytics"

\* The controller's answer: 404 for null, errorHandler's 400 for a
\* ValidationError, 200 otherwise.
statusOf(result) ==
  IF result = "null" THEN 404
  ELSE IF result = "ValidationError" THEN 400
  ELSE 200

Returned(id, result, at) ==
  [userId |-> id, result |-> result, status |-> statusOf(result), at |-> at]

\* ------------------------------------------------------------- SpecLife
\* Registration, deletion, updateAnalytics and resetAnalytics interleaved, on
\* one day.
LifeBegin == \E p \in Procs, id \in UserIds, payload \in LifePayloads :
               /\ started < MaxLifeSubmits
               /\ UpdateBegin(p, id, payload)
               /\ resp' = [resp EXCEPT ![p] =
                             IF isValid(id) THEN NoResp
                             ELSE Returned(id, "null", "isValid")]
               /\ UNCHANGED <<tally, run, users, stage, boardVars, edgeVars>>

LifeFind == \E p \in Procs :
              /\ UpdateFind(p)
              /\ resp' = IF findReturn(call[p].userId) = "null"
                         THEN [resp EXCEPT ![p] = Returned(call[p].userId, "null", "findOne")]
                         ELSE resp
              /\ UNCHANGED <<tally, run, users, stage, boardVars, edgeVars>>

LifeWrite == \E p \in Procs :
               /\ UpdateWrite(p)
               /\ resp' = [resp EXCEPT ![p] =
                             Returned(call[p].userId,
                                      writeReturn(call[p].userId, call[p].payload),
                                      "findOneAndUpdate")]
               /\ UNCHANGED <<tally, run, users, stage, boardVars, edgeVars>>

LifeReset == \E id \in UserIds :
               /\ ResetAnalytics(id)
               /\ UNCHANGED <<tally, run, lifeVars, boardVars, edgeVars>>

LifeRegister == \E u \in Users :
                  /\ UserCreate(u) \/ AnalyticsCreate(u)
                  /\ UNCHANGED <<tally, run, resp, boardVars, edgeVars>>

LifeDelete == \E u \in Users :
                /\ UserFindByIdAndDelete(u) \/ AnalyticsDeleteOne(u)
                /\ UNCHANGED <<tally, run, resp, boardVars, edgeVars>>

NextLife == LifeBegin \/ LifeFind \/ LifeWrite \/ LifeReset \/ LifeRegister \/ LifeDelete

\* u1 is registered and has taken no test; u2 is yet to register.
InitLife ==
  /\ analytics = {InitDoc("u1", 0)}
  /\ tally = [u \in Users |-> [n |-> 0, base |-> 0]]
  /\ clock = WINDOW
  /\ InitEdgeIdle
  /\ pc = [p \in Procs |-> "idle"]
  /\ call = [p \in Procs |-> NoCall]
  /\ started = 0
  /\ run = [u \in Users |-> NoRun]
  /\ users = {"u1"}
  /\ stage = [u \in Users |-> IF u = "u1" THEN "registered" ELSE "unregistered"]
  /\ resp = [p \in Procs |-> NoResp]
  /\ InitBoardIdle

SpecLife == InitLife /\ [][NextLife]_vars

\* ------------------------------------------------------ claims on SpecLife
\* Request p's updateAnalytics returns in this step.
ReturnStep(p) == pc[p] # "idle" /\ pc'[p] = "idle"

\* A request body with a negative wpm, or an accuracy outside [0, 100].
InvalidInput(payload) ==
  payload.wpm < 0 \/ payload.accuracy < 0 \/ payload.accuracy > 100

\* C11, as stated: an updateAnalytics call that returns while its user has no
\* document returns null (404), and the collection is the same before and
\* after, whether the document never was or went away before the write.
C11_NoRecordReturnsNull ==
  [][\A p \in Procs :
       (ReturnStep(p) /\ findOne(call[p].userId) = {}) =>
         /\ resp'[p].result = "null" /\ resp'[p].status = 404
         /\ analytics' = analytics]_vars

\* C11, amended: such a call returns null (404), but for one case: the
\* document was there at the read and is gone at the write, and the request
\* body is invalid; then the validators' error (400) is what returns. In
\* both cases the collection is the same before and after.
C11_NoRecordReturnsNullOrInvalid ==
  [][\A p \in Procs :
       (ReturnStep(p) /\ findOne(call[p].userId) = {}) =>
         /\ IF pc[p] = "findOneAndUpdate" /\ InvalidInput(call[p].payload)
            THEN resp'[p].result = "ValidationError" /\ resp'[p].status = 400
            ELSE resp'[p].result = "null" /\ resp'[p].status = 404
         /\ analytics' = analytics]_vars

\* Witness: a valid update read u1's document, the account was deleted, and
\* the write then returned null; no document of u1 exists.
C11_Witness ==
  \E p \in Procs :
    /\ resp[p] = Returned("u1", "null", "findOneAndUpdate")
    /\ findOne("u1") = {}
    /\ pc[p] = "idle"

\* C12: every step of an updateAnalytics call whose wpm is negative or whose
\* accuracy is negative or above 100 leaves the collection as it was, and the
\* call returns an error: the validators' (400) from the write, or null (404)
\* where the read found no document.
C12_InvalidInputRejected ==
  [][\A p \in Procs :
       (pc[p] # "idle" /\ pc'[p] # pc[p] /\ InvalidInput(call[p].payload)) =>
         /\ analytics' = analytics
         /\ pc'[p] = "idle" =>
              IF pc[p] = "findOneAndUpdate"
              THEN resp'[p].result = "ValidationError" /\ resp'[p].status = 400
              ELSE resp'[p].result = "null" /\ resp'[p].status = 404]_vars

\* Witness: a submission with a negative wpm for u1 has been rejected by the
\* validators, after an accepted one; u1's document is what the accepted one
\* left.
C12_Witness ==
  \E p \in Procs :
    /\ resp[p].result = "ValidationError" /\ resp[p].userId = "u1"
    /\ \A q \in Procs : pc[q] = "idle"
    /\ started = 2
    /\ findOne("u1") # {}
    /\ Doc("u1").totalPar = 1 /\ Doc("u1").wpm = 85

\* The document createUser inserts for u.
EmptyRecord(u) ==
  [userId |-> u, wpm |-> 0, accuracy |-> 0, testTimings |-> 0,
   lastTestTaken |-> <<>>, totalPar |-> 0, maxStreak |-> 0, progress |-> <<>>]

\* Neither createUser nor deleteUserAccount is between its two writes.
NoAccountOperationInFlight ==
  \A u \in Users : stage[u] \notin {"Analytics.create", "Analytics.deleteOne"}

C16_DeletedStaysDeleted ==
  /\ \A u \in Users : stage[u] = "deleted" => findOne(u) = {}
  /\ \A d \in analytics :
       d.userId \notin users => stage[d.userId] = "Analytics.deleteOne"

\* Witness: u1's account is deleted; an update of u1 that had read the
\* document before the deletion wrote after it, and a later update of u1
\* found nothing.
C16_Witness ==
  /\ stage["u1"] = "deleted"
  /\ resp[1] = Returned("u1", "null", "findOneAndUpdate")
  /\ resp[2] = Returned("u1", "null", "findOne")
  /\ findOne("u1") = {}

\* ------------------------------------------- IEEE-754 binary64 arithmetic
\* calculateScore and toFixed(2) work on doubles. A double is kept as
\* [m, e], the value m * 2^e, with m a natural number below 2^53 held as a
\* sequence of limbs to the base LIMB = 2^LIMBBITS, least significant limb
\* first.
LIMBBITS == 14
LIMB == 16384

Max(a, b) == IF a >= b THEN a ELSE b
Min(a, b) == IF a <= b THEN a ELSE b

RECURSIVE Carry(_, _)
Carry(xs, c) ==
  IF xs = <<>>
  THEN IF c = 0 THEN <<>> ELSE <<c % LIMB>> \o Carry(<<>>, c \div LIMB)
  ELSE <<(Head(xs) + c) % LIMB>> \o Carry(Tail(xs), (Head(xs) + c) \div LIMB)

Limb(xs, i) == IF i <= Len(xs) THEN xs[i] ELSE 0
Times(xs, k) == Carry([i \in 1..Len(xs) |-> xs[i] * k], 0)
Plus(xs, ys) ==
  Carry([i \in 1..Max(Len(xs), Len(ys)) |-> Limb(xs, i) + Limb(ys, i)], 0)
ToInteger(xs) == xs[1] + LIMB * Limb(xs, 2)

\* Bit j of the number (bit 0 the lowest), and the number of its bits.
Bit(xs, j) == (Limb(xs, j \div LIMBBITS + 1) \div 2^(j % LIMBBITS)) % 2
BitLength(xs) ==
  LET set == {j \in 0..(LIMBBITS * Len(xs) - 1) : Bit(xs, j) = 1}
  IN IF set = {} THEN 0 ELSE 1 + CHOOSE j \in set : \A k \in set : k <= j

\* floor(xs / 2^k)
ShiftRight(xs, k) ==
  LET q == k \div LIMBBITS
      r == k % LIMBBITS
  IN [i \in 1..Max(1, Len(xs) - q) |->
        Limb(xs, i + q) \div 2^r + (Limb(xs, i + q + 1) % 2^r) * 2^(LIMBBITS - r)]

\* The double nearest to m * 2^e, ties to the even mantissa: the s bits
\* beyond 53 leave at the low end; guard is the highest of them, sticky
\* tells whether any other of them is set.
RoundToNearestEven(m, e) ==
  LET s == Max(0, BitLength(m) - 53)
      q == ShiftRight(m, s)
      guard == IF s = 0 THEN 0 ELSE Bit(m, s - 1)
      sticky == \E j \in 0..(s - 2) : Bit(m, j) = 1
      r == IF guard = 1 /\ (sticky \/ Bit(q, 0) = 1) THEN Plus(q, <<1>>) ELSE q
  IN IF BitLength(r) > 53 THEN [m |-> ShiftRight(r, 1), e |-> e + s + 1]
     ELSE [m |-> r, e |-> e + s]

\* The doubles of the literals 0.7 (0x3FE6666666666666) and 0.3
\* (0x3FD3333333333333).
Double07 == [m |-> <<9830, 6553, 9830, 1433>>, e |-> -53]
Double03 == [m |-> <<13107, 3276, 13107, 1228>>, e |-> -54]

\* The double of a Number held as a fraction n/d with d among 1, 2 and 4 and
\* n below LIMB: such a value is a double as it stands.
toDouble(v) == [m |-> <<v[1]>>, e |-> -(CHOOSE k \in 0..2 : 2^k = v[2])]

\* x * c in doubles, x with a mantissa of one limb.
product(x, c) == RoundToNearestEven(Times(c.m, x.m[1]), x.e + c.e)

\* x + y in doubles; the exponents are less than LIMBBITS apart.
sum(x, y) ==
  LET e == Min(x.e, y.e)
  IN RoundToNearestEven(Plus(Times(x.m, 2^(x.e - e)), Times(y.m, 2^(y.e - e))), e)

\* Number(x.toFixed(2)): the n / 100 nearest to the double x, the larger n
\* on a tie (Number.prototype.toFixed), as a fraction.
toFixed2(x) ==
  LET p == Times(x.m, 100)
      k == -x.e
      half == IF k = 0 THEN 0 ELSE Bit(p, k - 1)
  IN Frac(ToInteger(Plus(ShiftRight(p, k), <<half>>)), 100)

\* wpm * 0.7 + accuracy * 0.3
calculateScore(wpm, accuracy) ==
  sum(product(toDouble(wpm), Double07), product(toDouble(accuracy), Double03))

\* -------------------------------------------------------- the leaderboard
\* .limit(10)
LIMIT == 10

\* The users of the leaderboard runs, in the order they registered, and the
\* wpm and accuracy of the one test each has taken.
BoardOrder == <<"u1", "u2", "u3", "u4", "u5", "u6", "u7", "u8", "u9", "u10", "u11", "u12">>
BoardStats == <<<<95, 90>>, <<95, 98>>, <<80, 99>>, <<90, 10>>, <<89, 100>>, <<80, 99>>,
                <<70, 93>>, <<60, 97>>, <<61, 91>>, <<62, 92>>, <<63, 96>>, <<64, 94>>>>
BoardUsers == {BoardOrder[i] : i \in 1..Len(BoardOrder)}
BoardSizes == {0, 3, Len(BoardOrder)}

\* The document of a user who registered and took one test.
BoardDoc(i) ==
  updatePatch(InitDoc(BoardOrder[i], 0),
              [wpm |-> BoardStats[i][1], accuracy |-> BoardStats[i][2],
               testTimings |-> 30, maxStreak |-> 1, lastTestTaken |-> 1001],
              <<newEntry(WINDOW, BoardStats[i][1], BoardStats[i][2])>>)

\* The username of the User document with this _id.
Username(u) == <<"username", u>>

\* .sort({ wpm: -1, accuracy: -1 }): d comes before e.
Before(d, e) == d.wpm > e.wpm \/ (d.wpm = e.wpm /\ d.accuracy > e.accuracy)

\* Analytics.find().sort(...).limit(n): the lists the store may answer with.
\* Documents equal in wpm and accuracy come in any order.
RECURSIVE sortLimit(_, _)
sortLimit(docs, n) ==
  IF docs = {} \/ n = 0 THEN {<<>>}
  ELSE UNION {{<<d>> \o rest : rest \in sortLimit(docs \ {d}, n - 1)} :
                d \in {d \in docs : \A e \in docs : ~Before(e, d)}}

\* .populate('userId', 'username'): the User document in place of the id,
\* null where the User collection has none.
populate(list) ==
  [i \in 1..Len(list) |->
     [list[i] EXCEPT !.userId =
        IF list[i].userId \in users
        THEN <<[_id |-> list[i].userId, username |-> Username(list[i].userId)]>>
        ELSE <<>>]]

\* Mutant: `rank: i`, the index of the loop.
rankOf_ZeroBased(i) == i - 1

\* rank: i + 1, for the i-th element of the list counted from 1.
rankOf(i) == i

\* The object the loop pushes for the i-th element: the numbers through
\* toFixed(2), the score through calculateScore. wpm and accuracy are
\* fractions.
leaderboardEntry(i, user, wpm, accuracy) ==
  [rank |-> rankOf(i),
   userId |-> user._id,
   username |-> user.username,
   wpm |-> toFixed2(toDouble(wpm)),
   accuracy |-> toFixed2(toDouble(accuracy)),
   weightedScore |-> toFixed2(calculateScore(wpm, accuracy))]

\* The loop over analyticsList. An element whose userId is null throws a
\* TypeError at `analytics.userId.toString()`.
mapToLeaderboard(list) ==
  IF \E i \in 1..Len(list) : list[i].userId = <<>>
  THEN [threw |-> TRUE, leaderboard |-> <<>>]
  ELSE [threw |-> FALSE,
        leaderboard |-> [i \in 1..Len(list) |->
                          leaderboardEntry(i, list[i].userId[1],
                                           Num(list[i].wpm), Num(list[i].accuracy))]]

\* JSON.stringify and JSON.parse. The text of a number with at most two
\* decimals is its integer part and its hundredths; the text of an entry is
\* the list of its values in the order of its keys.
stringifyNumber_NoDecimals(v) == <<v[1] \div v[2], 0>>

stringifyNumber(v) ==
  LET h == (v[1] * 100) \div v[2] IN <<h \div 100, h % 100>>

parseNumber(t) == Frac(t[1] * 100 + t[2], 100)

stringifyEntry(x) ==
  <<x.rank, x.userId, x.username, stringifyNumber(x.wpm),
    stringifyNumber(x.accuracy), stringifyNumber(x.weightedScore)>>

parseEntry(t) ==
  [rank |-> t[1], userId |-> t[2], username |-> t[3], wpm |-> parseNumber(t[4]),
   accuracy |-> parseNumber(t[5]), weightedScore |-> parseNumber(t[6])]

JSONstringify(arrayValue) ==
  [set |-> TRUE, type |-> "array",
   items |-> [i \in 1..Len(arrayValue) |-> stringifyEntry(arrayValue[i])]]

\* JSON.parse(raw): a SyntaxError for a text that is no JSON, else the value.
JSONparse(raw) ==
  [threw |-> raw.type = "invalid",
   isArray |-> raw.type = "array",
   value |-> IF raw.type = "array"
             THEN [i \in 1..Len(raw.items) |-> parseEntry(raw.items[i])]
             ELSE <<>>]

\* Values of the key that no setLeaderboard wrote: the empty string, a text
\* that is no JSON, and the JSON of an object.
CorruptTexts ==
  {[set |-> TRUE, type |-> t, items |-> <<>>] : t \in {"empty", "invalid", "object"}}

\* Mutant: getLeaderboard without its try / catch.
getLeaderboard_NoCatch ==
  IF ~redis.set \/ redis.type = "empty" THEN [threw |-> FALSE, value |-> <<>>]
  ELSE LET arr == JSONparse(redis)
       IN IF arr.threw THEN [threw |-> TRUE, value |-> <<>>]
          ELSE [threw |-> FALSE, value |-> IF arr.isArray THEN arr.value ELSE <<>>]

\* getLeaderboard: what it returns, and whether it threw.
getLeaderboard ==
  IF ~redis.set \/ redis.type = "empty" THEN [threw |-> FALSE, value |-> <<>>]
  ELSE LET arr == JSONparse(redis)
       IN IF arr.threw THEN [threw |-> FALSE, value |-> <<>>]
          ELSE [threw |-> FALSE, value |-> IF arr.isArray THEN arr.value ELSE <<>>]

\* generateLeaderboard, the query of lines 45..50 up to the sort and limit.
GenFind ==
  /\ gen.pc = "idle"
  /\ \E list \in sortLimit(analytics, LIMIT) :
       gen' = [pc |-> "populate", analyticsList |-> list, leaderboard |-> <<>>]
  /\ UNCHANGED <<analytics, users, stage, redis>>

\* Mutant: a run that ends in the catch publishes an empty array.
GenPopulate_ClearOnFail ==
  /\ gen.pc = "populate"
  /\ LET list == populate(gen.analyticsList)
         mapped == mapToLeaderboard(list)
     IN /\ gen' = IF mapped.threw THEN NoGen
                  ELSE [pc |-> "setLeaderboard", analyticsList |-> list,
                        leaderboard |-> mapped.leaderboard]
        /\ redis' = IF mapped.threw THEN JSONstringify(<<>>) ELSE redis
  /\ UNCHANGED <<analytics, users, stage>>

\* generateLeaderboard, the populate query and the loop of lines 52..68. A
\* TypeError ends the run in the catch of line 74.
GenPopulate ==
  /\ gen.pc = "populate"
  /\ LET list == populate(gen.analyticsList)
         mapped == mapToLeaderboard(list)
     IN gen' = IF mapped.threw THEN NoGen
               ELSE [pc |-> "setLeaderboard", analyticsList |-> list,
                     leaderboard |-> mapped.leaderboard]
  /\ UNCHANGED <<analytics, users, stage, redis>>

\* setLeaderboard(leaderboard): redis.set(key, JSON.stringify(arrayValue)),
\* no expiry. generateLeaderboard hands it nothing but an array.
GenSet ==
  /\ gen.pc = "setLeaderboard"
  /\ redis' = JSONstringify(gen.leaderboard)
  /\ gen' = NoGen
  /\ UNCHANGED <<analytics, users, stage>>

\* getLeaderboard: one redis.get.
GetLeaderboard == UNCHANGED <<analytics, users, stage, redis, gen>>

\* ------------------------------------------------------------ SpecBoard
\* generateLeaderboard and getLeaderboard next to account deletions and
\* resets.
BoardFind == GenFind /\ UNCHANGED <<edgeVars, clock, pc, call, started, tally, run, resp, pub, seen>>

BoardPopulate ==
  GenPopulate /\ UNCHANGED <<edgeVars, clock, pc, call, started, tally, run, resp, pub, seen>>

BoardSet ==
  /\ GenSet
  /\ pub' = [done |-> TRUE, value |-> gen.leaderboard, from |-> gen.analyticsList]
  /\ seen' = <<>>
  /\ UNCHANGED <<edgeVars, clock, pc, call, started, tally, run, resp>>

BoardGet ==
  /\ Len(seen) < MaxFetches
  /\ GetLeaderboard
  /\ seen' = Append(seen, getLeaderboard)
  /\ UNCHANGED <<edgeVars, clock, pc, call, started, tally, run, resp, pub>>

NextBoard == BoardFind \/ BoardPopulate \/ BoardSet \/ BoardGet \/ LifeDelete \/ LifeReset

\* The first k users of BoardOrder have registered and taken a test; the
\* cache key is absent or holds a value that setLeaderboard did not write.
InitBoard ==
  /\ \E k \in BoardSizes :
       /\ analytics = {BoardDoc(i) : i \in 1..k}
       /\ users = {BoardOrder[i] : i \in 1..k}
  /\ stage = [u \in Users |-> IF u \in users THEN "registered" ELSE "unregistered"]
  /\ redis \in {NoText} \cup CorruptTexts
  /\ gen = NoGen
  /\ pub = NoPub
  /\ seen = <<>>
  /\ tally = [u \in Users |-> [n |-> 0, base |-> 0]]
  /\ clock = WINDOW
  /\ InitEdgeIdle
  /\ pc = [p \in Procs |-> "idle"]
  /\ call = [p \in Procs |-> NoCall]
  /\ started = 0
  /\ run = [u \in Users |-> NoRun]
  /\ resp = [p \in Procs |-> NoResp]

SpecBoard == InitBoard /\ [][NextBoard]_vars

\* ------------------------------------------------------------ SpecScore
\* The body of generateLeaderboard's loop on one populated record, over
\* wpm and accuracy values with quarters.
ScoreInputs == {Frac(k, 4) : k \in {0, 1, 240, 289, 340, 360, 361, 380, 389, 400}}

LoopPush ==
  /\ gen.pc = "push"
  /\ gen' = [gen EXCEPT
               !.pc = "pushed",
               !.leaderboard =
                  <<leaderboardEntry(1, gen.analyticsList[1].userId[1],
                                     gen.analyticsList[1].wpm,
                                     gen.analyticsList[1].accuracy)>>]
  /\ UNCHANGED <<analytics, users, stage, redis>>

NextScore ==
  LoopPush /\ UNCHANGED <<edgeVars, clock, pc, call, started, tally, run, resp, pub, seen>>

InitScore ==
  /\ \E wpm \in ScoreInputs, accuracy \in ScoreInputs :
       gen = [pc |-> "push",
              analyticsList |->
                <<[userId |-> <<[_id |-> "u1", username |-> Username("u1")]>>,
                   wpm |-> wpm, accuracy |-> accuracy]>>,
              leaderboard |-> <<>>]
  /\ analytics = {}
  /\ users = {"u1"}
  /\ stage = [u \in Users |-> IF u \in users THEN "registered" ELSE "unregistered"]
  /\ redis = NoText
  /\ pub = NoPub
  /\ seen = <<>>
  /\ tally = [u \in Users |-> [n |-> 0, base |-> 0]]
  /\ clock = WINDOW
  /\ InitEdgeIdle
  /\ pc = [p \in Procs |-> "idle"]
  /\ call = [p \in Procs |-> NoCall]
  /\ started = 0
  /\ run = [u \in Users |-> NoRun]
  /\ resp = [p \in Procs |-> NoResp]

SpecScore == InitScore /\ [][NextScore]_vars

\* --------------------------------------------------- leaderboard claims
\* a < b for fractions.
FractionLess(a, b) == a[1] * b[2] < b[1] * a[2]

RoundedToHundredths(v) ==
  LET floor == (100 * v[1]) \div v[2]
      twice == 2 * ((100 * v[1]) % v[2])
      up == IF twice >= v[2] THEN floor + 1 ELSE floor
      even == IF twice > v[2] \/ (twice = v[2] /\ floor % 2 = 1) THEN floor + 1 ELSE floor
  IN {Frac(up, 100), Frac(even, 100)}

\* (7 * wpm + 3 * accuracy) / 10
WeightedSum(wpm, accuracy) ==
  Frac(7 * wpm[1] * accuracy[2] + 3 * accuracy[1] * wpm[2], 10 * wpm[2] * accuracy[2])

\* C18: the weightedScore of the entry that the loop pushes is
\* (7 * wpm + 3 * accuracy) / 10 of the record rounded to two decimals, and
\* the step leaves the Analytics collection as it was.
C18_ScoreIsRoundedWeightedSum ==
  [][(gen.pc = "push" /\ gen'.pc = "pushed") =>
       /\ gen'.leaderboard[1].weightedScore \in
            RoundedToHundredths(WeightedSum(gen.analyticsList[1].wpm,
                                            gen.analyticsList[1].accuracy))
       /\ analytics' = analytics]_vars

\* C19: every getLeaderboard since the last setLeaderboard returned the
\* array that setLeaderboard was given, and any two getLeaderboard calls
\* with no setLeaderboard between them returned the same.
C19_FetchReturnsLastPublished ==
  /\ pub.done => \A i \in 1..Len(seen) : ~seen[i].threw /\ seen[i].value = pub.value
  /\ \A i, j \in 1..Len(seen) : seen[i] = seen[j]

\* Witness: two reads of a published array of at least three entries, one
\* with a weightedScore that is no integer.
C19_Witness ==
  /\ pub.done
  /\ Len(pub.value) >= 3
  /\ \E i \in 1..Len(pub.value) : pub.value[i].weightedScore[2] # 1
  /\ Len(seen) = 2

\* getLeaderboard returns in this step.
GetStep == Len(seen') = Len(seen) + 1

\* C20: a getLeaderboard that finds the key absent or empty, a text that is
\* no JSON, or the JSON of something that is no array, returns [] without
\* throwing, and leaves the key as it was.
C20_FetchFailsOpen ==
  [][(GetStep /\ (~redis.set \/ redis.type \in {"empty", "invalid", "object"})) =>
       /\ seen'[Len(seen')] = [threw |-> FALSE, value |-> <<>>]
       /\ redis' = redis]_vars

\* Witness: the key holds a text that is no JSON, and getLeaderboard has
\* returned [] twice.
C20_Witness ==
  /\ redis.set /\ redis.type = "invalid"
  /\ Len(seen) = 2
  /\ seen[2] = [threw |-> FALSE, value |-> <<>>]

\* -------------------------------------------- totalPar and the counts
\* The sum of count over the entries of progress.
SumOfCounts(progress) ==
  LET partial[i \in 0..Len(progress)] ==
        IF i = 0 THEN 0 ELSE partial[i - 1] + progress[i].count
  IN partial[Len(progress)]

\* The step drops an entry of u's progress: some date stored before it is
\* not stored after it.
EvictStep(u) ==
  \E i \in 1..Len(Doc(u).progress) :
    \A j \in 1..Len(DocIn(analytics', u).progress) :
      DocIn(analytics', u).progress[j].date # Doc(u).progress[i].date

\* C27: the document that registration creates has totalPar equal to the sum
\* of count over its progress (both 0), and every step of one-at-a-time
\* updateAnalytics calls that is no reset and evicts no entry keeps the two
\* equal.
C27_TotalParIsSumOfCounts ==
  /\ \A u \in Users : SumOfCounts(InitDoc(u, 0).progress) = InitDoc(u, 0).totalPar
  /\ [][\A u \in Users :
          (/\ findOne(u) # {} /\ findOne(u)' # {}
           /\ SumOfCounts(Doc(u).progress) = Doc(u).totalPar
           /\ ~ResetStep(u)
           /\ ~EvictStep(u)) =>
            SumOfCounts(DocIn(analytics', u).progress) = DocIn(analytics', u).totalPar]_vars

\* Witness: three accepted submissions since registration, two of them on
\* one day: two entries, counts 2 and 1 in some order, totalPar 3.
C27_Witness ==
  \E d \in analytics :
    /\ tally[d.userId].base = 0 /\ tally[d.userId].n = 3
    /\ Len(d.progress) = 2
    /\ \E i \in 1..2 : d.progress[i].count = 2
    /\ d.totalPar = 3
    /\ SumOfCounts(d.progress) = 3

\* ------------------------------------------------------------ SpecRegen
\* generateLeaderboard run again and again, next to getLeaderboard, while
\* no Analytics or User document changes.
NextRegen == BoardFind \/ BoardPopulate \/ BoardSet \/ BoardGet

SpecRegen == InitBoard /\ [][NextRegen]_vars

\* setLeaderboard returns in this step.
SetStep == gen.pc = "setLeaderboard" /\ gen'.pc = "idle"

\* C21: with no document changed since the previous run, the redis.set of a
\* generateLeaderboard run leaves the key holding what the previous run put
\* there; and a getLeaderboard at any point returns the whole array of the
\* last setLeaderboard (or [] before the first), never a part of one.
C21_RegenerationIdempotent ==
  [][/\ (SetStep /\ pub.done) => redis' = redis
     /\ GetStep => seen'[Len(seen')].value = IF pub.done THEN pub.value ELSE <<>>]_vars

\* C28: a generateLeaderboard run whose list holds a record with no User
\* document (populate left userId null) goes on to setLeaderboard, with
\* username "Unknown" in that record's entry.
C28_OrphanListedAsUnknown ==
  [][\A i \in 1..Len(gen.analyticsList) :
       (gen.pc = "populate" /\ gen.analyticsList[i].userId \notin users) =>
         /\ gen'.pc = "setLeaderboard"
         /\ Len(gen'.leaderboard) = Len(gen.analyticsList)
         /\ gen'.leaderboard[i].username = "Unknown"]_vars

\* ------------------------------------------------------------ SpecFrame
\* generateLeaderboard next to everything that writes Analytics or User
\* documents: updateAnalytics, resetAnalytics, registration and deletion.
MaxFrameSubmits == 1

\* One request body, which the schema accepts.
FramePayloads == {x \in Payloads : x.wpm = 85}

FrameBegin == \E p \in Procs, id \in UserIds, payload \in FramePayloads :
                /\ started < MaxFrameSubmits
                /\ UpdateBegin(p, id, payload)
                /\ resp' = [resp EXCEPT ![p] =
                              IF isValid(id) THEN NoResp
                              ELSE Returned(id, "null", "isValid")]
                /\ UNCHANGED <<tally, run, users, stage, boardVars, edgeVars>>

NextFrame ==
  \/ FrameBegin \/ LifeFind \/ LifeWrite \/ LifeReset \/ LifeRegister \/ LifeDelete
  \/ BoardFind \/ BoardPopulate \/ BoardSet

\* u1 and u3 have registered and taken a test, u2 is yet to register; the
\* cache key is absent.
InitFrame ==
  /\ analytics = {BoardDoc(1), BoardDoc(3)}
  /\ users = {BoardOrder[1], BoardOrder[3]}
  /\ stage = [u \in Users |-> IF u \in users THEN "registered" ELSE "unregistered"]
  /\ redis = NoText
  /\ gen = NoGen
  /\ pub = NoPub
  /\ seen = <<>>
  /\ tally = [u \in Users |-> [n |-> 0, base |-> 0]]
  /\ clock = WINDOW
  /\ InitEdgeIdle
  /\ pc = [p \in Procs |-> "idle"]
  /\ call = [p \in Procs |-> NoCall]
  /\ started = 0
  /\ run = [u \in Users |-> NoRun]
  /\ resp = [p \in Procs |-> NoResp]

SpecFrame == InitFrame /\ [][NextFrame]_vars

\* A generateLeaderboard run ends in this step without reaching
\* setLeaderboard.
FailStep == gen.pc = "populate" /\ gen'.pc = "idle"

\* C29: the cache key changes in no step but the redis.set of a
\* generateLeaderboard run, which puts the run's array there; a step that
\* changes an Analytics or User document or moves a request leaves the key as
\* it was, and so does a run that ends in the catch.
C29_OnlyPublishWritesCache ==
  [][/\ redis' # redis => (SetStep /\ redis' = JSONstringify(gen.leaderboard))
     /\ (analytics' # analytics \/ users' # users \/ pc' # pc) => redis' = redis
     /\ FailStep => redis' = redis]_vars

\* Witness: the key holds the array of the last setLeaderboard, which lists
\* a user whose User document has since been deleted, and an updateAnalytics
\* call made meanwhile has answered with the updated record.
C29_Witness ==
  /\ pub.done
  /\ redis = JSONstringify(pub.value)
  /\ \E i \in 1..Len(pub.value) : pub.value[i].userId \notin users
  /\ \E p \in Procs : resp[p].status = 200

\* -------------------------------------------------------------- SpecCtl
\* The updateAnalytics controller in front of the service. A field of
\* req.body is absent (undefined after the destructuring) or a number.
MaxCtlSubmits == 2

Undefined == [t |-> "undefined", v |-> 0]
Number(n) == [t |-> "number", v |-> n]

\* `!x`: undefined and 0 are falsy.
Not(x) == x.t = "undefined" \/ (x.t = "number" /\ x.v = 0)

BodyFields == {"wpm", "accuracy", "testTimings", "maxStreak", "lastTestTaken"}

\* A complete body, and that body with one field left out or set to 0.
FullBody ==
  [wpm |-> Number(85), accuracy |-> Number(95), testTimings |-> Number(30),
   maxStreak |-> Number(1), lastTestTaken |-> Number(1001)]

CtlBodies ==
  {FullBody} \cup
  {[FullBody EXCEPT ![f] = x] : f \in BodyFields, x \in {Undefined, Number(0)}}

\* Mutant: every field is tested like testTimings, against undefined only.
MissingRequiredFields_UndefinedOnly(body) ==
  \E f \in BodyFields : body[f].t = "undefined"

\* The condition of the controller's `if`, line 46.
MissingRequiredFields(body) ==
  \/ Not(body.wpm)
  \/ Not(body.accuracy)
  \/ body.testTimings.t = "undefined"
  \/ Not(body.maxStreak)
  \/ Not(body.lastTestTaken)

\* The object the controller hands to analyticsService.updateAnalytics.
forwarded(body) ==
  [wpm |-> body.wpm.v, accuracy |-> body.accuracy.v,
   testTimings |-> body.testTimings.v, maxStreak |-> body.maxStreak.v,
   lastTestTaken |-> body.lastTestTaken.v]

\* next(new AppError("Missing required fields...", 400)).
MissingFields(u) ==
  [userId |-> u, result |-> "AppError", status |-> 400, at |-> "controller"]

\* The controller up to the service's first await: userId is req.userId, set
\* by the JWT middleware. The request takes the first free slot.
ControllerBegin(p, u, body) ==
  /\ req' = [req EXCEPT ![p] = [n |-> started + 1, body |-> body]]
  /\ IF MissingRequiredFields(body)
     THEN /\ pc[p] = "idle"
          /\ \A q \in Procs : q < p => pc[q] # "idle"
          /\ started' = started + 1
          /\ resp' = [resp EXCEPT ![p] = MissingFields(u)]
          /\ UNCHANGED <<analytics, clock, pc, call>>
     ELSE /\ UpdateBegin(p, u, forwarded(body))
          /\ resp' = [resp EXCEPT ![p] = NoResp]

CtlBegin == \E p \in Procs, u \in Users, body \in CtlBodies :
              /\ started < MaxCtlSubmits
              /\ ControllerBegin(p, u, body)
              /\ UNCHANGED <<tally, run, users, stage, boardVars, otp, reset, auth, mq>>

NextCtl == CtlBegin \/ LifeFind \/ LifeWrite

SpecCtl == InitLife /\ [][NextCtl]_vars

\* The controller takes a request in slot p in this step.
ControllerStep(p) == req'[p] # req[p]

\* wpm, accuracy, maxStreak and lastTestTaken are there and are not 0, and
\* testTimings is there.
PresentAndNonZero(body) ==
  /\ \A f \in BodyFields \ {"testTimings"} :
       body[f].t # "undefined" /\ body[f] # Number(0)
  /\ body.testTimings.t # "undefined"

\* C30: the controller calls the service only with a body in which wpm,
\* accuracy, maxStreak and lastTestTaken are present and not 0 and
\* testTimings is defined; with any other body it answers 400 and no
\* Analytics document is read or written; a body complete but for
\* testTimings = 0 goes to the service as it is.
C30_ControllerRequiresFields ==
  [][\A p \in Procs :
       ControllerStep(p) =>
         LET body == req'[p].body
         IN /\ pc'[p] = "findOne" => PresentAndNonZero(body)
            /\ ~PresentAndNonZero(body) =>
                 /\ resp'[p].status = 400
                 /\ pc'[p] = "idle"
                 /\ analytics' = analytics
                 /\ call' = call
            /\ body = [FullBody EXCEPT !.testTimings = Number(0)] =>
                 /\ pc'[p] = "findOne"
                 /\ call'[p].payload = forwarded(body)]_vars

\* Witness: a first test with maxStreak 0 was answered 400, and a body with
\* testTimings 0 was answered with the updated record.
C30_Witness ==
  \E p, q \in Procs :
    /\ req[p].body = [FullBody EXCEPT !.maxStreak = Number(0)]
    /\ resp[p].status = 400
    /\ req[q].body = [FullBody EXCEPT !.testTimings = Number(0)]
    /\ resp[q].status = 200
    /\ \E d \in analytics : d.totalPar = 1

\* -------------------------------------------------------------- SpecOtp
\* send-otp and reset-password for one email. Every await of resetPassword
\* and of otpStore is a step, so requests interleave at the awaits.
Code == "123456"
WrongCode == "000000"

\* The key holds a value that has not expired.
live(o) == o.key # <<>> /\ o.now < o.key[1].expireAt

\* redis.get(key) followed by JSON.parse: null (<<>>) for an absent or
\* expired key, else the payload { otp, attempts }.
redisGet(o) == IF live(o) THEN <<o.key[1].payload>> ELSE <<>>

\* redis.ttl(key): the seconds left, -2 for an absent or expired key.
redisTtl(o) == IF live(o) THEN o.key[1].expireAt - o.now ELSE -2

\* redis.set(key, JSON.stringify(payload), "EX", ttlSeconds).
redisSetEx(o, payload, ttlSeconds) ==
  [o EXCEPT !.key = <<[payload |-> payload, expireAt |-> o.now + ttlSeconds]>>]

\* redis.del(key).
redisDel(o) == [o EXCEPT !.key = <<>>]

\* The request has answered with this status.
Answered(call_, status) ==
  [pc |-> "done", otp |-> call_.otp, payload |-> <<>>, ttl |-> 0, status |-> status]

\* sendOTP, lines 26..27: generateOtp and setOtp(email, otp).
SendOtp ==
  /\ ~otp.issued
  /\ otp' = [redisSetEx(otp, [otp |-> Code, attempts |-> 0], OTP_TTL_SECONDS)
               EXCEPT !.issued = TRUE, !.issuedAt = otp.now]
  /\ UNCHANGED <<reset, coreVars, req, auth, mq>>

\* resetPassword, lines 47..62: validation, findUserByEmail and the
\* comparison of the two passwords pass. Requests are numbered as they come.
ResetStart(r, submitted) ==
  /\ reset[r].pc = "idle"
  /\ \A q \in Resetters : q < r => reset[q].pc # "idle"
  /\ reset' = [reset EXCEPT ![r] = [@ EXCEPT !.pc = "getOtp", !.otp = submitted]]
  /\ UNCHANGED <<otp, coreVars, req, auth, mq>>

\* resetPassword, lines 64..76: getOtp and the three tests on what it
\* returned.
ResetGetOtp(r) ==
  /\ reset[r].pc = "getOtp"
  /\ LET stored == redisGet(otp)
     IN IF stored = <<>>
        THEN /\ reset' = [reset EXCEPT ![r] = Answered(@, 400)]
             /\ UNCHANGED <<otp, coreVars, req, auth, mq>>
        ELSE IF stored[1].attempts >= MAX_ATTEMPTS
        THEN /\ reset' = [reset EXCEPT ![r] = [@ EXCEPT !.pc = "deleteOtpMax"]]
             /\ UNCHANGED <<otp, coreVars, req, auth, mq>>
        ELSE IF stored[1].otp # reset[r].otp
        THEN /\ reset' = [reset EXCEPT ![r] = [@ EXCEPT !.pc = "incrementGet"]]
             /\ otp' = [otp EXCEPT !.compared = @ + 1]
        ELSE /\ reset' = [reset EXCEPT ![r] = [@ EXCEPT !.pc = "resetUserPassword"]]
             /\ otp' = [otp EXCEPT !.compared = @ + 1,
                                   !.accepted = Append(@, otp.now)]
  /\ UNCHANGED <<coreVars, req, auth, mq>>

\* resetPassword, lines 70..71: deleteOtp, then 429.
ResetDeleteOtpMax(r) ==
  /\ reset[r].pc = "deleteOtpMax"
  /\ otp' = redisDel(otp)
  /\ reset' = [reset EXCEPT ![r] = Answered(@, 429)]
  /\ UNCHANGED <<coreVars, req, auth, mq>>

\* incrementOtpAttempts, lines 34..42: the read of the value. With no value
\* it returns null, and resetPassword answers 400.
IncrementGet(r) ==
  /\ reset[r].pc = "incrementGet"
  /\ LET raw == redisGet(otp)
     IN reset' = [reset EXCEPT ![r] =
                    IF raw = <<>> THEN Answered(@, 400)
                    ELSE [@ EXCEPT !.pc = "incrementTtl",
                                   !.payload = <<[raw[1] EXCEPT !.attempts = @ + 1]>>]]
  /\ UNCHANGED <<otp, coreVars, req, auth, mq>>

\* incrementOtpAttempts, line 43: the read of the TTL.
IncrementTtl(r) ==
  /\ reset[r].pc = "incrementTtl"
  /\ reset' = [reset EXCEPT ![r] = [@ EXCEPT !.pc = "incrementSet", !.ttl = redisTtl(otp)]]
  /\ UNCHANGED <<otp, coreVars, req, auth, mq>>

\* incrementOtpAttempts, lines 44..45, and resetPassword's 400.
IncrementSet(r) ==
  /\ reset[r].pc = "incrementSet"
  /\ LET ttlSeconds == IF reset[r].ttl > 0 THEN reset[r].ttl ELSE OTP_TTL_SECONDS
     IN otp' = redisSetEx(otp, reset[r].payload[1], ttlSeconds)
  /\ reset' = [reset EXCEPT ![r] = Answered(@, 400)]
  /\ UNCHANGED <<coreVars, req, auth, mq>>

\* resetPassword, lines 79..80: the new password is stored.
ResetUserPassword(r) ==
  /\ reset[r].pc = "resetUserPassword"
  /\ reset' = [reset EXCEPT ![r] = [@ EXCEPT !.pc = "deleteOtp"]]
  /\ UNCHANGED <<otp, coreVars, req, auth, mq>>

\* resetPassword, lines 82..87: deleteOtp, then 200.
ResetDeleteOtp(r) ==
  /\ reset[r].pc = "deleteOtp"
  /\ otp' = redisDel(otp)
  /\ reset' = [reset EXCEPT ![r] = Answered(@, 200)]
  /\ UNCHANGED <<coreVars, req, auth, mq>>

\* Half of the OTP's lifetime passes.
Advance ==
  /\ otp.advances < MaxAdvances
  /\ otp' = [otp EXCEPT !.now = @ + OTP_TTL_SECONDS \div 2, !.advances = @ + 1]
  /\ UNCHANGED <<reset, coreVars, req, auth, mq>>

NextOtp ==
  \/ SendOtp
  \/ \E r \in 1..MaxResets, submitted \in {Code, WrongCode} : ResetStart(r, submitted)
  \/ \E r \in Resetters : ResetGetOtp(r)
  \/ \E r \in Resetters : ResetDeleteOtpMax(r)
  \/ \E r \in Resetters : IncrementGet(r) \/ IncrementTtl(r) \/ IncrementSet(r)
  \/ \E r \in Resetters : ResetUserPassword(r) \/ ResetDeleteOtp(r)

SpecOtp == InitLife /\ [][NextOtp]_vars

\* ---------------------------------------------------------- SpecOtpTime
\* The same while time passes. Fewer than four requests are made, so none
\* finds three attempts stored.
NextOtpTime ==
  \/ SendOtp
  \/ \E r \in 1..MaxTimedResets, submitted \in {Code, WrongCode} : ResetStart(r, submitted)
  \/ \E r \in Resetters : ResetGetOtp(r)
  \/ \E r \in Resetters : IncrementGet(r) \/ IncrementTtl(r) \/ IncrementSet(r)
  \/ \E r \in Resetters : ResetUserPassword(r) \/ ResetDeleteOtp(r)
  \/ Advance

SpecOtpTime == InitLife /\ [][NextOtpTime]_vars

\* C22: no more than MAX_ATTEMPTS submitted values are compared with one
\* issued OTP, however the resetPassword requests for the email interleave.
C22_AtMostThreeCompared == otp.compared <= MAX_ATTEMPTS

\* C23: one issued OTP is matched by at most one resetPassword request.
C23_AtMostOneReset == Len(otp.accepted) <= 1

\* C24: the stored OTP never outlives the 120 seconds from its issue, and no
\* submitted value is matched later than that.
C24_NeverAcceptedAfterTtl ==
  /\ live(otp) => otp.key[1].expireAt <= otp.issuedAt + OTP_TTL_SECONDS
  /\ \A i \in 1..Len(otp.accepted) : otp.accepted[i] < otp.issuedAt + OTP_TTL_SECONDS

\* ------------------------------------------------------------- SpecAuth
\* The JWT middleware on one request after another. A token is what
\* jwt.verify finds in it: signed by this server and in time ("valid"),
\* signed and past its exp ("expired"), or anything else ("invalid"); its
\* payload holds userId and type.
TokenHeaders ==
  {[access_token |-> [state |-> a, type |-> "access", userId |-> u],
    refresh_token |-> [state |-> r, type |-> t, userId |-> u]] :
     a \in {"valid", "expired", "invalid"}, r \in {"valid", "expired", "invalid"},
     t \in {"refresh", "access"}, u \in Users}

\* verifyToken(token): jwt.verify, and the catch that sorts its errors.
verifyToken(token) ==
  IF token.state = "valid"
  THEN [valid |-> TRUE, expired |-> FALSE,
        decoded |-> <<[userId |-> token.userId, type |-> token.type]>>]
  ELSE [valid |-> FALSE, expired |-> token.state = "expired", decoded |-> <<>>]

\* generateTokens({ userId }).
generateTokens(userId) ==
  [accessToken |-> [state |-> "valid", type |-> "access", userId |-> userId],
   refreshToken |-> [state |-> "valid", type |-> "refresh", userId |-> userId]]

\* renewJWT(refreshToken): throws unless the token verifies and is of type
\* refresh.
renewJWT(refreshToken) ==
  LET verification == verifyToken(refreshToken)
  IN IF ~verification.valid \/ verification.decoded[1].type # "refresh"
     THEN [threw |-> TRUE, tokens |-> <<>>]
     ELSE [threw |-> FALSE, tokens |-> <<generateTokens(verification.decoded[1].userId)>>]

\* middleware, lines 21..26: the header is parsed and the access token
\* verified. A header that parses to null is answered 401.
MiddlewareVerify(header) ==
  /\ auth.pc \in {"idle", "done"}
  /\ auth.handled < MaxAuthRequests
  /\ auth' = IF header = <<>>
             THEN [NoAuth EXCEPT !.pc = "done", !.handled = auth.handled + 1,
                                 !.status = 401]
             ELSE [NoAuth EXCEPT !.pc = "verified", !.handled = auth.handled + 1,
                                 !.token = header,
                                 !.verification = <<verifyToken(header[1].access_token)>>]
  /\ UNCHANGED <<coreVars, req, otp, reset, mq>>

\* middleware, lines 28..46: the renewal of an expired access token, and the
\* rejection of an invalid one.
MiddlewareRenew ==
  /\ auth.pc = "verified"
  /\ LET verification == auth.verification[1]
         newTokens == renewJWT(auth.token[1].refresh_token)
     IN auth' =
          IF ~verification.valid /\ verification.expired
          THEN IF newTokens.threw
               THEN [auth EXCEPT !.pc = "done", !.status = 401, !.code = "SESSION_EXPIRED"]
               ELSE [auth EXCEPT !.pc = "attach", !.headers = newTokens.tokens]
          ELSE IF ~verification.valid
          THEN [auth EXCEPT !.pc = "done", !.status = 403, !.code = "TOKEN_INVALID"]
          ELSE [auth EXCEPT !.pc = "attach"]
  /\ UNCHANGED <<coreVars, req, otp, reset, mq>>

\* middleware, lines 48..54: req.userId = verification.decoded.userId and
\* next(). With decoded null the assignment throws a TypeError, and the
\* outer catch answers 500.
MiddlewareAttach ==
  /\ auth.pc = "attach"
  /\ auth' = IF auth.verification[1].decoded = <<>>
             THEN [auth EXCEPT !.pc = "done", !.status = 500]
             ELSE [auth EXCEPT !.pc = "done", !.next = TRUE,
                               !.userId = <<auth.verification[1].decoded[1].userId>>]
  /\ UNCHANGED <<coreVars, req, otp, reset, mq>>

NextAuth ==
  \/ \E header \in {<<>>} \cup {<<h>> : h \in TokenHeaders} : MiddlewareVerify(header)
  \/ MiddlewareRenew
  \/ MiddlewareAttach

SpecAuth == InitLife /\ [][NextAuth]_vars

\* The refresh token verifies and is of type refresh.
RefreshValid(token) == token.state = "valid" /\ token.type = "refresh"

\* C25: a request with an expired access token and a valid refresh token
\* ends with next() called, req.userId set to the token's userId and the new
\* tokens in the response headers; 401 SESSION_EXPIRED is answered only
\* with an invalid refresh token, and an access token that is invalid and
\* not expired is answered 403 TOKEN_INVALID.
C25_ExpiredAccessIsRenewed ==
  (auth.pc = "done" /\ auth.token # <<>>) =>
    LET header == auth.token[1]
    IN /\ (header.access_token.state = "expired" /\ RefreshValid(header.refresh_token)) =>
            /\ auth.next
            /\ auth.userId = <<header.access_token.userId>>
            /\ auth.headers = <<generateTokens(header.access_token.userId)>>
       /\ auth.code = "SESSION_EXPIRED" =>
            (auth.status = 401 /\ ~RefreshValid(header.refresh_token))
       /\ header.access_token.state = "invalid" =>
            (auth.status = 403 /\ auth.code = "TOKEN_INVALID")

\* --------------------------------------------------------------- SpecMq
\* connectMQ called by several callers, and stopMQ. Every await is a step.
\* Connections and channels are numbered as the broker gives them.

\* connectMQ up to its first await, lines 11..19: the channel if there is
\* one, else amqp.connect if there is no connection, else createChannel on
\* the connection there is.
ConnectMQ(c) ==
  /\ mq.calls[c].pc = "idle"
  /\ \A b \in Callers : b < c => mq.calls[b].pc # "idle"
  /\ mq' = [mq EXCEPT !.calls[c] =
              IF mq.channel # 0 THEN [pc |-> "done", returned |-> mq.channel]
              ELSE IF mq.connection = 0 THEN [pc |-> "connect", returned |-> 0]
              ELSE [pc |-> "createChannel", returned |-> 0]]
  /\ UNCHANGED <<coreVars, req, otp, reset, auth>>

\* Line 15: amqp.connect resolves, connection is assigned, and line 19 asks
\* it for a channel.
Connected(c) ==
  /\ mq.calls[c].pc = "connect"
  /\ mq' = [mq EXCEPT !.connections = @ + 1, !.connection = mq.connections + 1,
                      !.calls[c].pc = "createChannel"]
  /\ UNCHANGED <<coreVars, req, otp, reset, auth>>

\* Line 19: createChannel resolves and channel is assigned; line 21 awaits
\* assertQueue.
ChannelCreated(c) ==
  /\ mq.calls[c].pc = "createChannel"
  /\ mq' = [mq EXCEPT !.channels = @ + 1, !.channel = mq.channels + 1,
                      !.calls[c].pc = "assertQueue"]
  /\ UNCHANGED <<coreVars, req, otp, reset, auth>>

\* Lines 21..24: the queues are asserted, and `return channel` reads the
\* module's variable.
QueuesAsserted(c) ==
  /\ mq.calls[c].pc = "assertQueue"
  /\ mq' = [mq EXCEPT !.calls[c] = [pc |-> "done", returned |-> mq.channel]]
  /\ UNCHANGED <<coreVars, req, otp, reset, auth>>

\* stopMQ, lines 27..35: channel.close() and connection.close() are awaited.
StopClose ==
  /\ mq.stop = "idle"
  /\ mq' = [mq EXCEPT !.stop = "closing"]
  /\ UNCHANGED <<coreVars, req, otp, reset, auth>>

\* stopMQ, lines 36..37: both variables are set to null.
StopClear ==
  /\ mq.stop = "closing"
  /\ mq' = [mq EXCEPT !.stop = "done", !.channel = 0, !.connection = 0]
  /\ UNCHANGED <<coreVars, req, otp, reset, auth>>

NextMq ==
  \/ \E c \in Callers : ConnectMQ(c) \/ Connected(c) \/ ChannelCreated(c) \/ QueuesAsserted(c)
  \/ StopClose
  \/ StopClear

SpecMq == InitLife /\ [][NextMq]_vars

\* C26: until stopMQ is called, connectMQ has made at most one connection
\* and one channel, and all calls that returned have returned the same
\* channel, however the calls interleave.
C26_ConnectMQSingleton ==
  mq.stop = "idle" =>
    /\ mq.connections <= 1
    /\ mq.channels <= 1
    /\ \A b, c \in Callers :
         (mq.calls[b].pc = "done" /\ mq.calls[c].pc = "done") =>
           mq.calls[b].returned = mq.calls[c].returned

====
